---- MODULE Spec2Model ----
(***************************************************************************)
(* The object store of codecrafters-git-rust (src/main.rs): Object::write  *)
(* and Object::read, the recursive write_tree, the ls-tree entry iteration *)
(* and the commit-tree payload assembly.                                   *)
(*                                                                         *)
(* A byte is an integer 0..255 and a byte string is a sequence of bytes;   *)
(* text is written as its ASCII codes.  The two library codecs the program *)
(* calls are modelled by what they do to bytes:                            *)
(*   - sha1 is a deterministic 20-byte digest of its input (Sha1 below, an *)
(*     arithmetic digest standing in for SHA-1; digests may contain the    *)
(*     bytes 0 and 32 as real digests do);                                 *)
(*   - zlib is the zlib container with one stored deflate block and the    *)
(*     Adler-32 trailer (encode / Inflate below).                          *)
(***************************************************************************)
EXTENDS Integers, Sequences, FiniteSets, TLC

VARIABLES
    fs,      \* the working directory: the tree of files and directories
    store,   \* .git/objects: [dirs: prefix directories, files: path -> bytes]
    stack,   \* the call stack of write_tree, innermost frame last
    run,     \* the command being executed or last executed, and its result
    rd,      \* the Object returned by the last Object::read, with its reader
    out,     \* what the consumer of rd.reader has received so far
    wlog,    \* the calls of Object::write made so far, in order (history)
    inp      \* the input of the command under study (history)

vars == <<fs, store, stack, run, rd, out, wlog, inp>>

----------------------------------------------------------------------------
(* Bytes and text *)

NUL == 0
SP == 32
LF == 10
HashLen == 20

S_blob == <<98, 108, 111, 98>>
S_tree == <<116, 114, 101, 101>>
S_commit == <<99, 111, 109, 109, 105, 116>>
S_parent == <<112, 97, 114, 101, 110, 116>>
S_dotgit == <<46, 103, 105, 116>>
S_mode_dir == <<52, 48, 48, 48, 48>>
S_mode_file == <<49, 48, 48, 54, 52, 52>>
\* "author wtlin1228 <wtlin1228@gmail.com> 1717228746 +0800\n"
S_ident == <<119, 116, 108, 105, 110, 49, 50, 50, 56, 32, 60, 119, 116, 108,
             105, 110, 49, 50, 50, 56, 64, 103, 109, 97, 105, 108, 46, 99,
             111, 109, 62, 32, 49, 55, 49, 55, 50, 50, 56, 55, 52, 54, 32,
             43, 48, 56, 48, 48, 10>>
S_author == <<97, 117, 116, 104, 111, 114, 32>> \o S_ident
S_committer == <<99, 111, 109, 109, 105, 116, 116, 101, 114, 32>> \o S_ident

Min(a, b) == IF a <= b THEN a ELSE b

\* The index of the first b in s, 0 if there is none.
IndexOf(s, b) ==
    LET I == { i \in 1..Len(s) : s[i] = b }
    IN  IF I = {} THEN 0 ELSE CHOOSE i \in I : \A j \in I : i <= j

\* format!("{}", n) of an unsigned integer.
RECURSIVE ToDecimal(_)
ToDecimal(n) ==
    IF n < 10 THEN <<48 + n>>
    ELSE Append(ToDecimal(n \div 10), 48 + (n % 10))

IsDigit(b) == b >= 48 /\ b <= 57

RECURSIVE DigitsValue(_, _)
DigitsValue(s, i) ==
    IF i = 0 THEN 0 ELSE DigitsValue(s, i - 1) * 10 + (s[i] - 48)

\* str::parse::<u64>: an optional '+', then one or more decimal digits;
\* -1 stands for Err(ParseIntError).  (Values stay far below 2^64 here.)
ParseU64(s) ==
    LET d == IF s # <<>> /\ s[1] = 43 THEN Tail(s) ELSE s
    IN  IF d = <<>> \/ \E i \in 1..Len(d) : ~IsDigit(d[i])
        THEN -1
        ELSE DigitsValue(d, Len(d))

\* String::from_utf8 succeeds: s is well-formed UTF-8.
IsCont(b) == b >= 128 /\ b <= 191

RECURSIVE IsUtf8(_, _)
IsUtf8(s, i) ==
    LET n == Len(s) - i + 1
        b == s[i]
    IN  IF n <= 0 THEN TRUE
        ELSE IF b < 128 THEN IsUtf8(s, i + 1)
        ELSE IF b >= 194 /\ b <= 223
             THEN n >= 2 /\ IsCont(s[i + 1]) /\ IsUtf8(s, i + 2)
        ELSE IF b >= 224 /\ b <= 239
             THEN /\ n >= 3 /\ IsCont(s[i + 1]) /\ IsCont(s[i + 2])
                  /\ (b = 224 => s[i + 1] >= 160)
                  /\ (b = 237 => s[i + 1] <= 159)
                  /\ IsUtf8(s, i + 3)
        ELSE IF b >= 240 /\ b <= 244
             THEN /\ n >= 4 /\ IsCont(s[i + 1]) /\ IsCont(s[i + 2])
                  /\ IsCont(s[i + 3])
                  /\ (b = 240 => s[i + 1] >= 144)
                  /\ (b = 244 => s[i + 1] <= 143)
                  /\ IsUtf8(s, i + 4)
        ELSE FALSE

\* Byte-wise lexicographic order of two byte strings (OsString's Ord).
RECURSIVE BytesLess(_, _, _)
BytesLess(a, b, i) ==
    IF i > Len(b) THEN FALSE
    ELSE IF i > Len(a) THEN TRUE
    ELSE IF a[i] # b[i] THEN a[i] < b[i]
    ELSE BytesLess(a, b, i + 1)

----------------------------------------------------------------------------
(* The library codecs *)

\* The sums of Adler-32 over s[lo..hi] of a string of n bytes: the bytes,
\* and the bytes weighted by the number of prefixes each is part of.
RECURSIVE AdlerSums(_, _, _, _)
AdlerSums(s, lo, hi, n) ==
    IF lo > hi THEN <<0, 0>>
    ELSE IF lo = hi THEN <<s[lo], ((n - lo + 1) * s[lo]) % 65521>>
    ELSE LET mid == (lo + hi) \div 2
             l == AdlerSums(s, lo, mid, n)
             r == AdlerSums(s, mid + 1, hi, n)
         IN  <<(l[1] + r[1]) % 65521, (l[2] + r[2]) % 65521>>

\* Adler-32 of s, big-endian: a = 1 + the sum of the bytes, b = the sum of
\* the values a takes, both modulo 65521.
Adler32(s) ==
    LET p == AdlerSums(s, 1, Len(s), Len(s))
        a == (1 + p[1]) % 65521
        b == (Len(s) + p[2]) % 65521
    IN  <<b \div 256, b % 256, a \div 256, a % 256>>

\* encode: ZlibEncoder over a Vec, then finish().  Writing to a Vec cannot
\* fail, so the unwrap in it never panics and the result is always Ok.
encode(bytes) ==
    LET n == Len(bytes)
    IN  <<120, 156, 1, n % 256, n \div 256, 255 - (n % 256), 255 - (n \div 256)>>
        \o bytes \o Adler32(bytes)

\* ZlibDecoder over a whole file: [ok, bytes].  The objects here are far
\* smaller than one decoder buffer; a stream that is not whole and valid is
\* taken to fail on the first read.
Inflate(f) ==
    LET n == Len(f)
        bad == [ok |-> FALSE, bytes |-> <<>>]
    IN  IF n < 11 THEN bad
        ELSE IF f[1] # 120 \/ f[2] # 156 \/ f[3] # 1 THEN bad
        ELSE LET len == f[4] + 256 * f[5]
             IN  IF f[6] # 255 - f[4] \/ f[7] # 255 - f[5] \/ n < 11 + len
                 THEN bad
                 ELSE LET body == SubSeq(f, 8, 7 + len)
                      IN  IF SubSeq(f, 8 + len, 11 + len) # Adler32(body)
                          THEN bad
                          ELSE [ok |-> TRUE, bytes |-> body]

\* One lane of the digest folds h -> (h * base + byte + 1) mod m over the
\* input, from h = 1.  LaneMap is that fold over s[lo..hi] as the pair
\* <<a, c>> of the map h -> (a * h + c) mod m.
RECURSIVE LaneMap(_, _, _, _, _)
LaneMap(s, lo, hi, base, m) ==
    IF lo > hi THEN <<1, 0>>
    ELSE IF lo = hi THEN <<base, s[lo] + 1>>
    ELSE LET mid == (lo + hi) \div 2
             l == LaneMap(s, lo, mid, base, m)
             r == LaneMap(s, mid + 1, hi, base, m)
         IN  <<(r[1] * l[1]) % m, (r[1] * l[2] + r[2]) % m>>

Lane(s, base, m) ==
    LET f == LaneMap(s, 1, Len(s), base, m) IN (f[1] + f[2]) % m

\* Sha1::new(), update(bytes), finalize(): the 20-byte digest of bytes.  The
\* digest is three lanes to prime moduli, written out in six bytes, and
\* fourteen bytes mixed from them.
Sha1(bytes) ==
    LET v1 == Lane(bytes, 257, 46337)
        v2 == Lane(bytes, 263, 46327)
        v3 == Lane(bytes, 269, 46309)
    IN  <<v1 \div 256, v1 % 256, v2 \div 256, v2 % 256, v3 \div 256, v3 % 256>>
        \o [k \in 1..(HashLen - 6) |-> (v1 + k * v2 + k * k * v3) % 256]

HexDigit(v) == IF v < 10 THEN 48 + v ELSE 87 + v

\* hex::encode: two lowercase hex digits per byte.
HexEncode(d) ==
    [i \in 1..(2 * Len(d)) |->
        IF i % 2 = 1 THEN HexDigit(d[(i + 1) \div 2] \div 16)
        ELSE HexDigit(d[i \div 2] % 16)]

----------------------------------------------------------------------------
(* Kind *)

Kinds == {"Blob", "Tree", "Commit"}

\* impl Display for Kind
KindName(kind) ==
    CASE kind = "Blob" -> S_blob
      [] kind = "Tree" -> S_tree
      [] kind = "Commit" -> S_commit

\* Kind::from: "invalid" stands for the bail!("invalid kind").
KindFrom(s) ==
    IF s = S_blob THEN "Blob"
    ELSE IF s = S_tree THEN "Tree"
    ELSE IF s = S_commit THEN "Commit"
    ELSE "invalid"

----------------------------------------------------------------------------
(* Object::write and Object::read *)

EmptyStore == [dirs |-> {}, files |-> <<>>]

Put(f, k, v) == [x \in (DOMAIN f) \cup {k} |-> IF x = k THEN v ELSE f[x]]

\* (A faulty variant of Canonical: the header is not terminated by a null byte)
Canonical_NoNul(kind, content) ==
    KindName(kind) \o <<SP>> \o ToDecimal(Len(content)) \o content

\* The bytes the identity is computed over: format!("{} {}\0", kind, len)
\* followed by the content.
Canonical(kind, content) ==
    KindName(kind) \o <<SP>> \o ToDecimal(Len(content)) \o <<NUL>> \o content

\* ".git/objects/<folder>/<filename>" as the pair <<folder, filename>>.
ObjectPath(hash_hex) ==
    <<SubSeq(hash_hex, 1, 2), SubSeq(hash_hex, 3, Len(hash_hex))>>

WriteFaults == {"none", "create_dir_all", "create", "write", "write_all"}

\* What fs::write leaves in a file when write_all fails after File::create
\* has truncated it: a part of the bytes ("write": none of them, "write_all":
\* the first half).
Partial(bytes, fault) ==
    IF fault = "write" THEN <<>> ELSE SubSeq(bytes, 1, Len(bytes) \div 2)

\* (A faulty variant of ObjectWrite: the result of fs::write is dropped)
ObjectWrite_Unchecked(st, kind, content, fault) ==
    LET hash == Sha1(Canonical(kind, content))
        hash_hex == HexEncode(hash)
        path == ObjectPath(hash_hex)
        with_dir == [st EXCEPT !.dirs = @ \cup {SubSeq(hash_hex, 1, 2)}]
        compressed == encode(Canonical(kind, content))
    IN  CASE fault = "create_dir_all" ->
               [ok |-> FALSE, hash |-> <<>>, path |-> path, store |-> st]
          [] fault = "create" ->
               [ok |-> TRUE, hash |-> hash, path |-> path, store |-> with_dir]
          [] fault \in {"write", "write_all"} ->
               [ok |-> TRUE, hash |-> hash, path |-> path,
                store |-> [with_dir EXCEPT !.files =
                              Put(@, path, Partial(compressed, fault))]]
          [] OTHER ->
               [ok |-> TRUE, hash |-> hash, path |-> path,
                store |-> [with_dir EXCEPT !.files =
                              Put(@, path, compressed)]]

\* Object::write(kind, content) on the store st.  fault names the filesystem
\* call that fails, if one does: each failure returns through `?`.
\* fs::write is File::create, which truncates the file, and then write_all:
\* "create" fails before the file is changed, "write" and "write_all" after.
ObjectWrite(st, kind, content, fault) ==
    LET git_object_formatted_content == Canonical(kind, content)
        hash == Sha1(git_object_formatted_content)
        hash_hex == HexEncode(hash)
        target_dir == SubSeq(hash_hex, 1, 2)
        with_dir == [st EXCEPT !.dirs = @ \cup {target_dir}]
        path == ObjectPath(hash_hex)
    IN  CASE fault = "create_dir_all" ->
               [ok |-> FALSE, hash |-> <<>>, path |-> path, store |-> st]
          [] fault = "create" ->
               [ok |-> FALSE, hash |-> <<>>, path |-> path, store |-> with_dir]
          [] fault \in {"write", "write_all"} ->
               [ok |-> FALSE, hash |-> <<>>, path |-> path,
                store |-> [with_dir EXCEPT !.files =
                              Put(@, path,
                                  Partial(encode(git_object_formatted_content),
                                          fault))]]
          [] OTHER ->
               [ok |-> TRUE, hash |-> hash, path |-> path,
                store |-> [with_dir EXCEPT !.files =
                              Put(@, path,
                                  encode(git_object_formatted_content))]]

NoReader == [buf |-> <<>>, limit |-> 0]
NoObject ==
    [state |-> "none", err |-> "", kind |-> "", expected_size |-> 0,
     reader |-> NoReader]
ReadErr(msg) == [NoObject EXCEPT !.state = "err", !.err = msg]

\* Object::read(hash) on the store st.  state is "ok" (the Object), "err"
\* (an anyhow error, err its context) or "panic" (the process aborts).
\* reader is reader.take(size): buf is what the decoder still holds after
\* the header, limit what Take still lets through.
ObjectRead(st, hash) ==
    IF Len(hash) < 2
    THEN [NoObject EXCEPT !.state = "panic", !.err = "split_at"]
    ELSE
    LET file_path == ObjectPath(hash)
    IN  IF file_path \notin DOMAIN st.files THEN ReadErr("open file")
        ELSE
        LET z == Inflate(st.files[file_path])
            i == IndexOf(z.bytes, NUL)
            buf == IF i = 0 THEN z.bytes ELSE SubSeq(z.bytes, 1, i)
            rest == SubSeq(z.bytes, Len(buf) + 1, Len(z.bytes))
            without_ending_null == SubSeq(buf, 1, Len(buf) - 1)
            sp == IndexOf(without_ending_null, SP)
            kind == SubSeq(without_ending_null, 1, sp - 1)
            size == ParseU64(SubSeq(without_ending_null, sp + 1,
                                    Len(without_ending_null)))
        IN  IF ~z.ok THEN ReadErr("read header from .git/objects")
            ELSE IF buf = <<>> THEN ReadErr("split last")
            ELSE IF ~IsUtf8(without_ending_null, 1)
                 THEN ReadErr("object header isn't valid UTF-8")
            ELSE IF sp = 0 THEN ReadErr("object header isn't <kink> <size>")
            ELSE IF size < 0 THEN ReadErr("object header has invalid size")
            ELSE IF KindFrom(kind) = "invalid" THEN ReadErr("invalid kind")
            ELSE [state |-> "ok", err |-> "", kind |-> KindFrom(kind),
                  expected_size |-> size,
                  reader |-> [buf |-> rest, limit |-> size]]

\* (A faulty variant of TakeRead: the reader is not limited by take(size))
TakeRead_Unlimited(r, n) ==
    LET k == Min(n, Len(r.buf))
    IN  [data |-> SubSeq(r.buf, 1, k),
         reader |-> [buf |-> SubSeq(r.buf, k + 1, Len(r.buf)),
                     limit |-> r.limit - k]]

\* Take::read of at most n bytes: [data, reader].
TakeRead(r, n) ==
    LET k == Min(n, Min(r.limit, Len(r.buf)))
    IN  [data |-> SubSeq(r.buf, 1, k),
         reader |-> [buf |-> SubSeq(r.buf, k + 1, Len(r.buf)),
                     limit |-> r.limit - k]]

\* BufRead::read_until(b): up to and including the first b, or to the end.
ReadUntil(r, b) ==
    LET avail == SubSeq(r.buf, 1, Min(r.limit, Len(r.buf)))
        i == IndexOf(avail, b)
    IN  TakeRead(r, IF i = 0 THEN Len(avail) ELSE i)

\* Read::read_exact(n): [ok, data, reader]; not ok is UnexpectedEof.
ReadExact(r, n) ==
    LET t == TakeRead(r, n)
    IN  [ok |-> Len(t.data) = n, data |-> t.data, reader |-> t.reader]

----------------------------------------------------------------------------
(* State shared by the specifications *)

MaxWrites == 2
MaxRead == 2

NoOut == [data |-> <<>>, eof |-> FALSE, entries |-> <<>>, err |-> ""]
NoResult == [set |-> FALSE, some |-> FALSE, hash |-> <<>>, shuffled |-> FALSE]
\* state: "idle", "running", "ok" (the command returned Ok), "err" (it
\* returned an error to main) or "panic" (the process aborted); some and hash
\* are the Option the last write_tree returned; rets are the calls of
\* write_tree that have returned in this run; failed: a filesystem call has
\* failed in this run; shuffled: read_dir has listed a directory out of order
\* in this run; first: the result of the first write_tree run that returned
\* Ok.
Idle == [cmd |-> "", state |-> "idle", some |-> FALSE, hash |-> <<>>,
         err |-> "", rets |-> {}, failed |-> FALSE, shuffled |-> FALSE,
         first |-> NoResult]
NoInput == [hash |-> <<>>, entries |-> <<>>, tree |-> <<>>, parent |-> <<>>,
            has_parent |-> FALSE, message |-> <<>>]

\* The record of one call of Object::write: its arguments, its result, the
\* place in the working directory it was made for, and whether the object
\* file was there before the call.
WriteCall(kind, content, w, path) ==
    [kind |-> kind, content |-> content, ok |-> w.ok, hash |-> w.hash,
     path |-> path,
     existed |-> w.path \in DOMAIN store.files]

\* The run record of a command that begins, and of one that fails.
Fresh(cmd) ==
    [run EXCEPT !.cmd = cmd, !.state = "running", !.err = "", !.some = FALSE,
                !.hash = <<>>, !.rets = {}, !.failed = FALSE,
                !.shuffled = FALSE]
Aborted(r, state, msg) ==
    [r EXCEPT !.state = state, !.err = msg, !.failed = TRUE,
              !.some = FALSE, !.hash = <<>>]

\* A command that calls Object::write(kind, content) once and exits:
\* hash-object -w (a blob) or commit-tree (a commit); write_tree makes the
\* same call for blobs and trees.  keep: the log goes on from the earlier
\* commands (at most MaxWrites calls), otherwise it starts with the command.
WriteObject(kind, content, fault, keep) ==
    /\ run.state # "running"
    /\ keep => Len(wlog) < MaxWrites
    /\ LET w == ObjectWrite(store, kind, content, fault)
       IN  /\ store' = w.store
           /\ wlog' = Append(IF keep THEN wlog ELSE <<>>,
                             WriteCall(kind, content, w, <<>>))
           /\ run' = IF w.ok THEN [Fresh("write-object") EXCEPT !.state = "ok"]
                     ELSE Aborted(Fresh("write-object"), "err", fault)
    /\ rd' = NoObject
    /\ out' = NoOut
    /\ UNCHANGED <<fs, stack, inp>>

\* A call of Object::read(hash) from cat-file or ls-tree.
ReadObject(hash) ==
    /\ rd' = ObjectRead(store, hash)
    /\ out' = NoOut
    /\ inp' = [NoInput EXCEPT !.hash = hash]
    /\ UNCHANGED <<fs, store, stack, run, wlog>>

\* One read of at most n bytes from object.reader (io::copy in cat-file
\* reads until a read returns nothing).
ReadChunk(n) ==
    /\ rd.state = "ok"
    /\ ~out.eof
    /\ LET t == TakeRead(rd.reader, n)
       IN  /\ rd' = [rd EXCEPT !.reader = t.reader]
           /\ out' = [out EXCEPT !.data = @ \o t.data, !.eof = (t.data = <<>>)]
    /\ UNCHANGED <<fs, store, stack, run, wlog, inp>>

----------------------------------------------------------------------------
(* The codec on its own: objects written by Object::write beside one object
   that something else put in the store *)

\* Decompressed contents of a foreign object file.
RawObjects ==
    { S_blob \o <<32, 51, 0, 97, 98, 99>>,        \* "blob 3\0abc"
      S_blob \o <<32, 50, 0, 97, 98, 99, 100>>,   \* "blob 2\0abcd"
      S_blob \o <<32, 53, 0, 97, 98>>,            \* "blob 5\0ab"
      S_blob \o <<32, 49, 0, 0, 0>>,              \* "blob 1\0\0\0"
      S_blob \o <<32, 43, 50, 0, 97, 98>>,        \* "blob +2\0ab"
      S_commit \o <<32, 48, 0>>,                  \* "commit 0\0"
      <<102, 111, 111, 32, 49, 0, 97>>,           \* "foo 1\0a"
      <<255, 32, 49, 0>>,                         \* "\xff 1\0"
      S_blob \o <<32, 49, 50>>,                   \* "blob 12"
      S_blob,                                     \* "blob"
      S_tree \o <<32, 120>>,                      \* "tree x"
      <<102, 111, 111, 32, 49, 120>>,             \* "foo 1x"
      <<255, 32, 49, 49>>,                        \* "\xff 11"
      <<>> }

\* A file that is no zlib stream.
CorruptFile == <<1, 2, 3>>

\* The name the foreign object is stored under: "abcd".
ForeignHash == <<97, 98, 99, 100>>

\* Contents given to Object::write: the empty one, and eleven bytes (a length
\* of two digits) with a null byte, a space and a newline among them.
Payloads == { <<>>, <<97, 0, 32, 98, 10, 0, 99, 100, 101, 102, 103>> }

\* Arguments given to Object::read: the names in the store, a name that is
\* not there, and names too short to split.
ReadArgs ==
    { p[1] \o p[2] : p \in DOMAIN store.files }
        \cup { <<97, 98, 99, 101>>, <<97>>, <<>> }

InitCodec ==
    /\ fs = <<>>
    /\ \E f \in { encode(r) : r \in RawObjects } \cup { CorruptFile } :
          store = [dirs |-> { SubSeq(ForeignHash, 1, 2) },
                   files |-> Put(<<>>, ObjectPath(ForeignHash), f)]
    /\ stack = <<>>
    /\ run = Idle
    /\ rd = NoObject
    /\ out = NoOut
    /\ wlog = <<>>
    /\ inp = NoInput

NextCodec ==
    \/ \E kind \in Kinds, content \in Payloads :
          WriteObject(kind, content, "none", TRUE)
    \/ \E hash \in ReadArgs : ReadObject(hash)
    \/ \E n \in 1..MaxRead : ReadChunk(n)

SpecCodec == InitCodec /\ [][NextCodec]_vars

----------------------------------------------------------------------------
(* The working directory *)

File(data) == [type |-> "file", data |-> data, children |-> <<>>]
Dir(children) == [type |-> "dir", data |-> <<>>, children |-> children]

\* The directory with the children named by the pairs <<name, node>>.
Mk(pairs) ==
    [n \in { p[1] : p \in pairs } |-> (CHOOSE p \in pairs : p[1] = n)[2]]

RECURSIVE NodeAt(_, _)
NodeAt(dir, path) ==
    IF Len(path) = 1 THEN dir[path[1]]
    ELSE NodeAt(dir[path[1]].children, Tail(path))

\* The children of the directory at path (the root is <<>>).
DirAt(path) == IF path = <<>> THEN fs ELSE NodeAt(fs, path).children

\* entry_path.is_dir()
IsDir(path) == NodeAt(fs, path).type = "dir"

N_a == <<97>>
N_B == <<66>>
N_ab == <<97, 98>>
Data1 == <<120>>
Data2 == <<>>

\* Contents of subdirectories: only an empty subdirectory; an empty file
\* beside an empty subdirectory; a file beside a subdirectory with a file of
\* the same contents.
OnlyEmptyDir == Mk({ <<N_B, Dir(<<>>)>> })
FileAndEmptyDir == Mk({ <<N_a, File(Data2)>>, <<N_B, Dir(<<>>)>> })
Nested ==
    Mk({ <<N_a, File(Data1)>>, <<N_B, Dir(Mk({ <<N_a, File(Data1)>> }))>> })

DotGit == { <<S_dotgit, Dir(Mk({ <<N_a, File(Data1)>> }))>> }

\* The working directories a behaviour starts from.  Their children are
\* chosen among "B" (a file, or a directory with only an empty
\* subdirectory), "ab" (a file, beside the file "B") and "a" (an empty file
\* or a directory); some hold ".git" (a directory with a file) as well.
Worktrees ==
    { Mk(b \cup a) :
        b \in { {}, { <<N_B, File(Data1)>> },
                { <<N_B, File(Data1)>>, <<N_ab, File(Data1)>> },
                { <<N_B, Dir(OnlyEmptyDir)>> } },
        a \in { {}, { <<N_a, File(Data2)>> },
                { <<N_a, Dir(FileAndEmptyDir)>> }, { <<N_a, Dir(Nested)>> } } }
    \cup
    { Mk(DotGit \cup b \cup a) :
        b \in { {}, { <<N_B, Dir(OnlyEmptyDir)>> } },
        a \in { {}, { <<N_a, File(Data2)>> } } }

----------------------------------------------------------------------------
(* write_tree *)

RECURSIVE InsertSorted(_, _)
InsertSorted(sorted, x) ==
    IF sorted = <<>> THEN <<x>>
    ELSE IF BytesLess(x, Head(sorted), 1) THEN <<x>> \o sorted
    ELSE <<Head(sorted)>> \o InsertSorted(Tail(sorted), x)

\* (A faulty variant of SortNames: the entries are left in the order of the listing)
SortNames_Unsorted(s) == s

\* entries.sort_by(|a, b| a.file_name().partial_cmp(&b.file_name()).unwrap())
RECURSIVE SortNames(_)
SortNames(s) ==
    IF s = <<>> THEN <<>> ELSE InsertSorted(SortNames(Tail(s)), Head(s))

\* Every order in which read_dir may list the names in S.
RECURSIVE Orders(_)
Orders(S) ==
    IF S = {} THEN { <<>> }
    ELSE UNION { { <<x>> \o o : o \in Orders(S \ {x}) } : x \in S }

\* What the fold over read_dir keeps of a listing: the entries that are Ok
\* and are not named ".git".  lossy: entries may fail to be read, and the
\* fold drops them without a word.
Listings(dir, lossy) ==
    LET names == (DOMAIN dir) \ { S_dotgit }
        kept == IF lossy THEN SUBSET names ELSE { names }
    IN  UNION { Orders(k) : k \in kept }

\* The state of a call of write_tree(path) when its loop begins.
Frame(path, listing) ==
    [path |-> path, entries |-> SortNames(listing), tree_content |-> <<>>]

\* One tree entry as write_tree appends it.
TreeEntry(mode, name, hash) == mode \o <<SP>> \o name \o <<NUL>> \o hash

\* A call of write_tree(path) begins above the frames base: read_dir() and
\* its unwrap, the fold, the sort.  (The ensure! on path.is_dir() cannot
\* fail: the path is "." or has just been seen to be a directory.)
Enter(path, lossy, base, r) ==
    \/ /\ run' = Aborted(r, "panic", "read_dir")
       /\ stack' = <<>>
    \/ \E listing \in Listings(DirAt(path), lossy) :
          /\ stack' = Append(base, Frame(path, listing))
          /\ run' = [r EXCEPT
                       !.failed = @ \/ Len(listing) <
                          Cardinality((DOMAIN DirAt(path)) \ { S_dotgit }),
                       !.shuffled = @ \/ listing # SortNames(listing)]

\* Command::WriteTree: a new process calls write_tree(".").
StartWriteTree(lossy) ==
    /\ run.state # "running"
    /\ Enter(<<>>, lossy, <<>>, Fresh("write-tree"))
    /\ wlog' = <<>>
    /\ rd' = NoObject
    /\ out' = NoOut
    /\ UNCHANGED <<fs, store, inp>>

Top == stack[Len(stack)]

FileFaults == {"read"} \cup WriteFaults

\* The loop body for an entry that is not a directory: fs::read, then
\* Object::write(Kind::Blob, ..), then the entry is appended.
FileEntry(fault) ==
    /\ run.state = "running"
    /\ Top.entries # <<>>
    /\ LET file_name == Head(Top.entries)
           entry_path == Append(Top.path, file_name)
           data == NodeAt(fs, entry_path).data
           w == ObjectWrite(store, "Blob", data, fault)
       IN  /\ ~IsDir(entry_path)
           /\ IF fault = "read"
              THEN /\ run' = Aborted(run, "err", "fs::read")
                   /\ stack' = <<>>
                   /\ UNCHANGED <<store, wlog>>
              ELSE /\ store' = w.store
                   /\ wlog' = Append(wlog, WriteCall("Blob", data, w, entry_path))
                   /\ IF w.ok
                      THEN /\ stack' = [stack EXCEPT ![Len(stack)] =
                                  [@ EXCEPT !.entries = Tail(@),
                                            !.tree_content = @ \o
                                    TreeEntry(S_mode_file, file_name, w.hash)]]
                           /\ UNCHANGED run
                      ELSE /\ run' = Aborted(run, "err", fault)
                           /\ stack' = <<>>
    /\ UNCHANGED <<fs, rd, out, inp>>

\* The loop body for a directory entry, up to the recursive call.
DirEntry(lossy) ==
    /\ run.state = "running"
    /\ Top.entries # <<>>
    /\ LET entry_path == Append(Top.path, Head(Top.entries))
       IN  /\ IsDir(entry_path)
           /\ Enter(entry_path, lossy, stack, run)
    /\ UNCHANGED <<fs, store, wlog, rd, out, inp>>

\* (A faulty variant of IsEmptyTree: a tree is written for every directory)
IsEmptyTree_Never(tree_content) == FALSE

\* tree_content.len() == 0
IsEmptyTree(tree_content) == Len(tree_content) = 0

\* The loop of the innermost call is over: it returns None, or writes the
\* tree and returns Some(hash); the caller appends the entry for a Some, and
\* Command::WriteTree ends the run.
Return(fault) ==
    /\ run.state = "running"
    /\ Top.entries = <<>>
    /\ LET f == Top
           empty == IsEmptyTree(f.tree_content)
           w == ObjectWrite(store, "Tree", f.tree_content, fault)
           hash == IF empty THEN <<>> ELSE w.hash
           ret == [path |-> f.path, some |-> ~empty, hash |-> hash,
                   content |-> f.tree_content]
           caller == stack[Len(stack) - 1]
       IN  /\ empty => fault = "none"
           /\ IF empty THEN UNCHANGED <<store, wlog>>
              ELSE /\ store' = w.store
                   /\ wlog' = Append(wlog,
                                WriteCall("Tree", f.tree_content, w, f.path))
           /\ IF ~empty /\ ~w.ok
              THEN /\ run' = Aborted(run, "err", fault)
                   /\ stack' = <<>>
              ELSE IF Len(stack) = 1
              THEN /\ run' = [run EXCEPT !.state = "ok", !.some = ~empty,
                                !.hash = hash, !.rets = @ \cup {ret},
                                !.first = IF @.set THEN @
                                          ELSE [set |-> TRUE, some |-> ~empty,
                                                hash |-> hash,
                                                shuffled |-> run.shuffled]]
                   /\ stack' = <<>>
              ELSE /\ run' = [run EXCEPT !.rets = @ \cup {ret}]
                   /\ stack' = Append(SubSeq(stack, 1, Len(stack) - 2),
                        [caller EXCEPT !.entries = Tail(@),
                           !.tree_content =
                              IF empty THEN @
                              ELSE @ \o TreeEntry(S_mode_dir,
                                                  Head(caller.entries), hash)])
    /\ UNCHANGED <<fs, rd, out, inp>>

\* The objects a user writes beside write_tree: a blob with the contents of
\* a file of the working directory, and a commit with the same payload.
UserWrites == { <<"Blob", Data1>>, <<"Commit", Data1>> }

Init ==
    /\ fs \in Worktrees
    /\ store = EmptyStore
    /\ stack = <<>>
    /\ run = Idle
    /\ rd = NoObject
    /\ out = NoOut
    /\ wlog = <<>>
    /\ inp = NoInput

\* The commands on one working directory, run one after the other: read_dir
\* lists every entry, in any order, or fails; fs::read, create_dir_all and
\* fs::write may fail at any call (a write_all that fails has written
\* nothing here; SpecFault has the half-written file as well).
Next ==
    \/ StartWriteTree(FALSE)
    \/ \E fault \in FileFaults \ {"write_all"} : FileEntry(fault)
    \/ DirEntry(FALSE)
    \/ \E fault \in WriteFaults \ {"write_all"} : Return(fault)
    \/ \E kp \in UserWrites : WriteObject(kp[1], kp[2], "none", FALSE)

Spec == Init /\ [][Next]_vars

\* One run of write_tree where the filesystem also fails to read entries of
\* a listing, and Object::read on the store before anything is written to
\* it.
NextFault ==
    \/ run.state = "idle" /\ StartWriteTree(TRUE)
    \/ \E fault \in FileFaults : FileEntry(fault)
    \/ DirEntry(TRUE)
    \/ \E fault \in WriteFaults : Return(fault)
    \/ \E hash \in ReadArgs : run.state = "idle" /\ ReadObject(hash)

InitFault ==
    /\ Init
    /\ fs \in { Mk({ <<N_a, File(Data2)>> }),
                Mk({ <<N_B, File(Data1)>>, <<N_a, Dir(FileAndEmptyDir)>> }) }

SpecFault == InitFault /\ [][NextFault]_vars

----------------------------------------------------------------------------
(* ls-tree: the iteration over the entries of a tree *)

\* The index of the last b in s, 0 if there is none.
LastIndexOf(s, b) ==
    LET I == { i \in 1..Len(s) : s[i] = b }
    IN  IF I = {} THEN 0 ELSE CHOOSE i \in I : \A j \in I : j <= i

\* (A faulty variant of LsTreeEntry: mode and name are split at the last space)
LsTreeEntry_LastSpace(r) ==
    LET u == ReadUntil(r, NUL)
        buf == u.data
        h == ReadExact(u.reader, HashLen)
        without_ending_null == SubSeq(buf, 1, Len(buf) - 1)
        sp == LastIndexOf(without_ending_null, SP)
        none == [mode |-> <<>>, name |-> <<>>, hash |-> <<>>]
    IN  IF Len(buf) = 0
        THEN [state |-> "end", err |-> "", entry |-> none, reader |-> u.reader]
        ELSE IF ~h.ok \/ sp = 0
        THEN [state |-> "err", err |-> "read tree entry", entry |-> none,
              reader |-> h.reader]
        ELSE [state |-> "entry", err |-> "",
              entry |-> [mode |-> SubSeq(without_ending_null, 1, sp - 1),
                         name |-> SubSeq(without_ending_null, sp + 1,
                                         Len(without_ending_null)),
                         hash |-> h.data],
              reader |-> h.reader]

\* One turn of the loop of Command::LsTree on the reader r: state is "end"
\* (read_until returned 0: break), "entry" or "err".
LsTreeEntry(r) ==
    LET u == ReadUntil(r, NUL)
        buf == u.data
        h == ReadExact(u.reader, HashLen)
        without_ending_null == SubSeq(buf, 1, Len(buf) - 1)
        sp == IndexOf(without_ending_null, SP)
        none == [mode |-> <<>>, name |-> <<>>, hash |-> <<>>]
    IN  IF Len(buf) = 0
        THEN [state |-> "end", err |-> "", entry |-> none, reader |-> u.reader]
        ELSE IF ~h.ok
        THEN [state |-> "err", err |-> "read tree entry hash", entry |-> none,
              reader |-> h.reader]
        ELSE IF sp = 0
        THEN [state |-> "err", err |-> "get tree entry name", entry |-> none,
              reader |-> h.reader]
        ELSE [state |-> "entry", err |-> "",
              entry |-> [mode |-> SubSeq(without_ending_null, 1, sp - 1),
                         name |-> SubSeq(without_ending_null, sp + 1,
                                         Len(without_ending_null)),
                         hash |-> h.data],
              reader |-> h.reader]

\* The loop of Command::LsTree run to its end: [entries, err].
RECURSIVE LsTreeAll(_)
LsTreeAll(r) ==
    LET e == LsTreeEntry(r)
    IN  IF e.state = "entry"
        THEN LET t == LsTreeAll(e.reader)
             IN  [entries |-> <<e.entry>> \o t.entries, err |-> t.err]
        ELSE [entries |-> <<>>, err |-> e.err]

\* The entries of a tree payload, as ls-tree reads them.
Entries(payload) ==
    LsTreeAll([buf |-> payload, limit |-> Len(payload)]).entries

\* One turn of the loop, on the Object that Object::read returned.
LsTreeStep ==
    /\ rd.state = "ok"
    /\ rd.kind = "Tree"
    /\ ~out.eof
    /\ out.err = ""
    /\ LET e == LsTreeEntry(rd.reader)
       IN  /\ rd' = [rd EXCEPT !.reader = e.reader]
           /\ out' = [out EXCEPT
                        !.entries = IF e.state = "entry"
                                    THEN Append(@, e.entry) ELSE @,
                        !.eof = (e.state = "end"),
                        !.err = e.err]
    /\ UNCHANGED <<fs, store, stack, run, wlog, inp>>

MaxEntries == 2

Modes == { S_mode_file, S_mode_dir, <<>> }
Names == { N_a, <<97, 32, 98>>, <<32>>, <<>> }
Identities ==
    { [i \in 1..HashLen |-> 0], [i \in 1..HashLen |-> IF i = 3 THEN 0 ELSE 32] }

\* "<mode> " ++ name ++ 0x00 ++ identity for each entry, concatenated.
RECURSIVE EncodeEntries(_)
EncodeEntries(es) ==
    IF es = <<>> THEN <<>>
    ELSE TreeEntry(es[1].mode, es[1].name, es[1].hash)
            \o EncodeEntries(Tail(es))

EntrySeqs ==
    UNION { [1..n -> [mode : Modes, name : Names, hash : Identities]] :
              n \in 0..MaxEntries }

\* The entries are encoded as write_tree encodes them and stored as a tree.
WriteEntries ==
    /\ wlog = <<>>
    /\ LET content == EncodeEntries(inp.entries)
           w == ObjectWrite(store, "Tree", content, "none")
       IN  /\ store' = w.store
           /\ wlog' = <<WriteCall("Tree", content, w, <<>>)>>
    /\ UNCHANGED <<fs, stack, run, rd, out, inp>>

\* ls-tree on the tree just written.
ReadEntries ==
    /\ wlog # <<>>
    /\ rd.state = "none"
    /\ rd' = ObjectRead(store, HexEncode(wlog[1].hash))
    /\ UNCHANGED <<fs, store, stack, run, out, wlog, inp>>

InitEntries ==
    /\ fs = <<>>
    /\ store = EmptyStore
    /\ stack = <<>>
    /\ run = Idle
    /\ rd = NoObject
    /\ out = NoOut
    /\ wlog = <<>>
    /\ \E es \in EntrySeqs : inp = [NoInput EXCEPT !.entries = es]

NextEntries ==
    \/ WriteEntries
    \/ ReadEntries
    \/ LsTreeStep

SpecEntries == InitEntries /\ [][NextEntries]_vars

----------------------------------------------------------------------------
(* commit-tree *)

\* (A faulty variant of CommitContent: the parent line is written even without a
\* parent, and the message is not ended by a newline)
CommitContent_Sloppy(tree, has_parent, parent, message) ==
    S_tree \o <<SP>> \o tree \o <<LF>>
        \o S_parent \o <<SP>> \o parent \o <<LF>>
        \o S_author \o S_committer \o <<LF>> \o message

\* The content that Command::CommitTree assembles.
CommitContent(tree, has_parent, parent, message) ==
    LET c1 == S_tree \o <<SP>> \o tree \o <<LF>>
        c2 == IF has_parent
              THEN c1 \o S_parent \o <<SP>> \o parent \o <<LF>>
              ELSE c1
        c3 == c2 \o S_author
        c4 == c3 \o S_committer
        c5 == Append(c4, LF)
        c6 == c5 \o message
    IN  Append(c6, LF)

\* Command::CommitTree { tree, parent, message }.
CommitTree(tree, has_parent, parent, message) ==
    /\ Len(wlog) < MaxWrites
    /\ LET content == CommitContent(tree, has_parent, parent, message)
           w == ObjectWrite(store, "Commit", content, "none")
       IN  /\ store' = w.store
           /\ wlog' = Append(wlog, WriteCall("Commit", content, w, <<>>))
    /\ inp' = [NoInput EXCEPT !.tree = tree, !.has_parent = has_parent,
                 !.parent = IF has_parent THEN parent ELSE <<>>,
                 !.message = message]
    /\ UNCHANGED <<fs, stack, run, rd, out>>

\* Arguments of commit-tree: names of objects, and messages: "init", the
\* empty message, and two lines.
ObjectNames == { HexEncode(Sha1(<<>>)), HexEncode(Sha1(<<1>>)) }
Messages == { <<105, 110, 105, 116>>, <<>>, <<97, 10, 98>> }

InitCommit ==
    /\ fs = <<>>
    /\ store = EmptyStore
    /\ stack = <<>>
    /\ run = Idle
    /\ rd = NoObject
    /\ out = NoOut
    /\ wlog = <<>>
    /\ inp = NoInput

NextCommit ==
    \E tree \in ObjectNames, has_parent \in BOOLEAN, parent \in ObjectNames,
       message \in Messages :
        /\ (~has_parent => parent = tree)
        /\ CommitTree(tree, has_parent, parent, message)

SpecCommit == InitCommit /\ [][NextCommit]_vars

----------------------------------------------------------------------------
(* Claims about the codec, under SpecCodec *)

IsPrefix(a, b) == Len(a) <= Len(b) /\ a = SubSeq(b, 1, Len(a))

\* The successful calls of Object::write that returned the identity whose
\* hex form is hash.
WritesOf(hash) ==
    { i \in 1..Len(wlog) : wlog[i].ok /\ HexEncode(wlog[i].hash) = hash }

\* C1: reading back the identity returned by write_object(k, p) yields kind
\* k, expected_size len(p) and a stream that delivers exactly the bytes of
\* p; and two calls with the same k and p return the same identity.
C1_RoundTrip ==
    /\ \A i \in WritesOf(inp.hash) :
          rd.state # "none" =>
             /\ rd.state = "ok"
             /\ rd.kind = wlog[i].kind
             /\ rd.expected_size = Len(wlog[i].content)
             /\ IsPrefix(out.data, wlog[i].content)
             /\ out.eof => out.data = wlog[i].content
    /\ \A i, j \in 1..Len(wlog) :
          (wlog[i].ok /\ wlog[j].ok /\ wlog[i].kind = wlog[j].kind
             /\ wlog[i].content = wlog[j].content)
          => wlog[i].hash = wlog[j].hash

\* C1 witness: a non-empty payload written twice and read back to the end.
C1_Witness ==
    \E i, j \in WritesOf(inp.hash) :
        /\ i # j
        /\ wlog[i].content # <<>>
        /\ rd.state = "ok"
        /\ out.eof
        /\ out.data = wlog[i].content

\* The error kinds of the specification's taxonomy, by the context the code
\* attaches to the error.
ErrorKind(msg) ==
    CASE msg = "open file" -> "NotFound"
      [] msg = "read header from .git/objects" -> "CorruptObject"
      [] msg \in {"split last", "object header isn't valid UTF-8",
                  "object header isn't <kink> <size>"} -> "MalformedHeader"
      [] msg = "object header has invalid size" -> "InvalidSize"
      [] msg = "invalid kind" -> "UnknownKind"
      [] OTHER -> "Other"

\* The decompressed bytes of the object file that the last Object::read
\* opened.
ReadBytes == Inflate(store.files[ObjectPath(inp.hash)])

ReadOpened ==
    /\ rd.state # "none"
    /\ Len(inp.hash) >= 2
    /\ ObjectPath(inp.hash) \in DOMAIN store.files

\* C5: a stored object whose decompressed bytes contain no null byte makes
\* read_object fail with MalformedHeader, never succeed and never fail with
\* another kind of error.
C5_NoNulIsMalformedHeader ==
    (ReadOpened /\ ReadBytes.ok /\ IndexOf(ReadBytes.bytes, NUL) = 0)
    => (rd.state = "err" /\ ErrorKind(rd.err) = "MalformedHeader")

\* C6: for a stored object with a well-formed header declaring size n, the
\* stream delivers at most n bytes, they are the first bytes that follow the
\* header's null byte, and at the end of the stream they are the first
\* min(n, available) of them.
C6_BoundedPayload ==
    (ReadOpened /\ rd.state = "ok" /\ IndexOf(ReadBytes.bytes, NUL) # 0)
    => LET bytes == ReadBytes.bytes
           after == SubSeq(bytes, IndexOf(bytes, NUL) + 1, Len(bytes))
           n == rd.expected_size
       IN  /\ Len(out.data) <= n
           /\ IsPrefix(out.data, after)
           /\ out.eof => out.data = SubSeq(after, 1, Min(n, Len(after)))

\* C6 witness: an object with bytes beyond its declared size, read to the
\* end of the stream.
C6_Witness ==
    /\ ReadOpened /\ rd.state = "ok" /\ IndexOf(ReadBytes.bytes, NUL) # 0
    /\ out.eof
    /\ out.data # <<>>
    /\ Len(ReadBytes.bytes) > IndexOf(ReadBytes.bytes, NUL) + rd.expected_size

----------------------------------------------------------------------------
(* Claims about write_tree and the store, under Spec *)

\* a < b in the byte-wise order of byte strings.
ByteOrderLess(a, b) ==
    \E i \in 1..Len(b) :
        /\ i - 1 <= Len(a)
        /\ \A j \in 1..(i - 1) : a[j] = b[j]
        /\ (i > Len(a) \/ a[i] < b[i])

\* The children of a directory that write_tree does not exclude by name.
Visible(dir) == (DOMAIN dir) \ { S_dotgit }

\* The directory holds a file somewhere beneath it.
RECURSIVE HasFile(_)
HasFile(dir) ==
    \E n \in Visible(dir) :
        dir[n].type = "file" \/ HasFile(dir[n].children)

\* The paths of the files, and of the directories, beneath dir (at prefix).
RECURSIVE FilePaths(_, _)
FilePaths(dir, prefix) ==
    UNION { IF dir[n].type = "file" THEN { Append(prefix, n) }
            ELSE FilePaths(dir[n].children, Append(prefix, n)) :
            n \in Visible(dir) }

RECURSIVE DirPaths(_, _)
DirPaths(dir, prefix) ==
    { prefix } \cup
    UNION { DirPaths(dir[n].children, Append(prefix, n)) :
            n \in { m \in Visible(dir) : dir[m].type = "dir" } }

\* The calls of Object::write of this run for an object of kind at path.
CallsFor(kind, path) ==
    { i \in 1..Len(wlog) : wlog[i].kind = kind /\ wlog[i].path = path }

\* What can be observed of a store: its directories, its paths, and the
\* decompressed bytes at each path.
Observable(st) ==
    [dirs |-> st.dirs, files |-> [p \in DOMAIN st.files |-> Inflate(st.files[p])]]

\* C2: no step changes or removes an object that is stored (a file of the
\* store that decompresses), and a successful write of an object that is
\* already stored leaves the store in the same observable state.
C2_WritesPreserve ==
    [][ /\ \A p \in DOMAIN store.files :
              Inflate(store.files[p]).ok =>
                 /\ p \in DOMAIN store'.files
                 /\ Inflate(store'.files[p]) = Inflate(store.files[p])
        /\ (wlog' # wlog /\ wlog' # <<>>) =>
              LET c == wlog'[Len(wlog')]
                  p == ObjectPath(HexEncode(c.hash))
              IN  (/\ c.ok
                   /\ p \in DOMAIN store.files
                   /\ Inflate(store.files[p]).ok)
                     => Observable(store') = Observable(store) ]_vars

\* C3: the entries of every tree payload that write_tree writes are in
\* strictly ascending byte-wise order of name, and every run that returns
\* gives the identity the first one gave, whatever the orders of the listings.
C3_SortDeterminism ==
    /\ \A i \in 1..Len(wlog) :
          wlog[i].kind = "Tree" =>
             LET es == Entries(wlog[i].content)
             IN  \A j \in 1..(Len(es) - 1) :
                    ByteOrderLess(es[j].name, es[j + 1].name)
    /\ (run.cmd = "write-tree" /\ run.state = "ok")
          => (run.some = run.first.some /\ run.hash = run.first.hash)

\* C3 witness: a run that was given a listing out of order, after a first
\* run that was not, has written a tree of three entries and returned.
C3_Witness ==
    /\ run.cmd = "write-tree" /\ run.state = "ok"
    /\ run.shuffled /\ ~run.first.shuffled
    /\ \E i \in 1..Len(wlog) :
          wlog[i].kind = "Tree" /\ Len(Entries(wlog[i].content)) = 3

Embedded(payload) ==
    LET es == Entries(payload) IN { es[j].hash : j \in 1..Len(es) }

----------------------------------------------------------------------------
(* Claim about failures, under SpecFault *)

\* C7: every failure is returned to the caller as an error: the process is
\* never aborted, and no command returns Ok after a call in it has failed.
C7_ErrorsAreReturned ==
    /\ run.state # "panic"
    /\ rd.state # "panic"
    /\ run.state = "ok" => ~run.failed

----------------------------------------------------------------------------
(* Claim about the tree entries, under SpecEntries *)

\* C10: decoding the encoded entries yields the same triples in the same
\* order (what has been decoded so far is a prefix of them, with no error),
\* and the iteration ends after the last of them.
C10_EntriesRoundTrip ==
    /\ rd.state \in {"none", "ok"}
    /\ out.err = ""
    /\ IsPrefix(out.entries, inp.entries)
    /\ out.eof => out.entries = inp.entries

\* C10 witness: two entries, a name with a space and an identity with a
\* null byte among them, decoded to the end.
C10_Witness ==
    /\ out.eof
    /\ Len(out.entries) = 2
    /\ \E j \in 1..2 : IndexOf(out.entries[j].name, SP) # 0
    /\ \E j \in 1..2 : IndexOf(out.entries[j].hash, NUL) # 0

----------------------------------------------------------------------------
(* Claim about the commit payload, under SpecCommit *)

FirstLine(s) == SubSeq(s, 1, IndexOf(s, LF) - 1)
AfterLine(s) == SubSeq(s, IndexOf(s, LF) + 1, Len(s))
T_tree == <<116, 114, 101, 101, 32>>
T_parent == <<112, 97, 114, 101, 110, 116, 32>>
T_author == <<97, 117, 116, 104, 111, 114, 32>>
T_committer == <<99, 111, 109, 109, 105, 116, 116, 101, 114, 32>>

\* C8: the payload is the line "tree t", the line "parent q" exactly when a
\* parent is given, an author line, a committer line, a blank line, and the
\* message followed by one newline.
C8_CommitPayload ==
    wlog # <<>> =>
       LET c == wlog[Len(wlog)].content
           a1 == AfterLine(c)
           a2 == IF inp.has_parent THEN AfterLine(a1) ELSE a1
           a3 == AfterLine(a2)
           a4 == AfterLine(a3)
           a5 == AfterLine(a4)
       IN  /\ IndexOf(c, LF) # 0
           /\ FirstLine(c) = T_tree \o inp.tree
           /\ inp.has_parent =>
                 (IndexOf(a1, LF) # 0 /\ FirstLine(a1) = T_parent \o inp.parent)
           /\ ~IsPrefix(T_parent, a2)
           /\ IsPrefix(T_author, a2) /\ IndexOf(a2, LF) # 0
           /\ IsPrefix(T_committer, a3) /\ IndexOf(a3, LF) # 0
           /\ IsPrefix(<<LF>>, a4)
           /\ a5 = inp.message \o <<LF>>

\* C8 witness: a commit without a parent and with the message "init".
C8_Witness ==
    /\ wlog # <<>>
    /\ ~inp.has_parent
    /\ inp.message = <<105, 110, 105, 116>>
    /\ LET c == wlog[Len(wlog)].content
       IN  SubSeq(c, Len(c) - 5, Len(c)) = <<10, 105, 110, 105, 116, 10>>

====
